---- MODULE Spec2Model ----
(***************************************************************************)
(* MailAssist: the message-processing pipeline (MailProcessor.run), the    *)
(* IMAP client it drives (ImapClient) and the append-only state ledger     *)
(* (ProcessorState).                                                       *)
(*                                                                         *)
(* The mailbox is the server-side folder: an ordered list of messages.     *)
(* ImapClient addresses messages with SEARCH / FETCH / STORE (not their    *)
(* UID variants), so the "uid" of an envelope is the message's sequence    *)
(* number, i.e. its position in the folder at the time of the search.      *)
(*                                                                         *)
(* Spec is a run of the pipeline. The components are also driven on their  *)
(* own, over ranges of inputs: the ledger (SpecLedger), the attachment     *)
(* processor (SpecAttach), the LLM client against a stub API client        *)
(* (SpecLLM) and the choice of the recipient (SpecRecipient).              *)
(***************************************************************************)
EXTENDS Integers, Sequences, FiniteSets, TLC

\* ---- bounds of the model ------------------------------------------------
MaxMsgs == 3        \* messages in the folder when the first run starts
MaxRuns == 2        \* constructions of ProcessorState on the same files
MaxWrites == 3      \* ledger writes in a behaviour of the ledger alone
MaxParts == 1       \* attachment parts of a message given to process() alone
MaxSizeMb == 1      \* largest max_attachment_size_mb of a policy

MsgIds == 1..MaxMsgs

VARIABLES
    mailbox,              \* server folder: sequence of message identities
    flagged,              \* messages carrying the \Deleted flag
    trusted,              \* messages whose From header holds a trusted token
    files,                \* file system: path -> sequence of lines
    clock,                \* datetime.now(), as a logical clock
    delete_after_success, \* config.queue_policy.delete_after_success
    conn,                 \* ImapClient._conn: "none" or "open"
    pc,                   \* position of the process inside run()
    envelopes,            \* the list fetch_messages returned
    idx,                  \* index of the envelope being processed
    attachments,          \* ProcessedAttachment list of the current envelope
    exc,                  \* str(exc) of the exception being handled
    fetchLog,             \* per FETCH of the search result: its status
    calls,                \* history of the capability calls of this run
    removedBy,            \* history: <<envelope index, message>> expunged
    runs                  \* process invocations so far

vars == <<mailbox, flagged, trusted, files, clock, delete_after_success, conn,
          pc, envelopes, idx, attachments, exc, fetchLog, calls, removedBy, runs>>

\* ---- config.py: StateSettings --------------------------------------------
deleted_record_path == "deleted_uids.log"
failed_record_path == "failed_uids.log"
Paths == {deleted_record_path, failed_record_path}

\* ---- small helpers --------------------------------------------------------
IsPrefix(s, t) == Len(s) <= Len(t) /\ SubSeq(t, 1, Len(s)) = s

RECURSIVE Join(_, _)
\* sep.join(parts) for a sequence of strings
Join(sep, parts) ==
    IF parts = <<>> THEN ""
    ELSE IF Len(parts) = 1 THEN parts[1]
    ELSE parts[1] \o sep \o Join(sep, Tail(parts))

\* s contains t as a substring (Python's `t in s`)
Contains(s, t) ==
    \E i \in 1..(Len(s) - Len(t) + 1) : SubSeq(s, i, i + Len(t) - 1) = t

RECURSIVE SelectIdx(_, _, _)
\* the positions i of 1..n, in increasing order, that satisfy keep[i]
SelectIdx(i, n, keep) ==
    IF i > n THEN <<>>
    ELSE (IF keep[i] THEN <<i>> ELSE <<>>) \o SelectIdx(i + 1, n, keep)

RECURSIVE SplitLines(_)
\* the lines a text file gains when `text` followed by a newline is written
\* to it: the text is cut at every newline character it holds
SplitLines(text) ==
    IF \E i \in 1..Len(text) : SubSeq(text, i, i) = "\n"
    THEN LET i == CHOOSE i \in 1..Len(text) :
                    /\ SubSeq(text, i, i) = "\n"
                    /\ \A j \in 1..(i - 1) : SubSeq(text, j, j) # "\n"
         IN  <<SubSeq(text, 1, i - 1)>> \o SplitLines(SubSeq(text, i + 1, Len(text)))
    ELSE <<text>>

\* ---- llm_client.py: the error texts generate_reply raises ----------------
\* RuntimeError(f"LLM returned invalid JSON: {payload}")
InvalidJsonError(payload) == "LLM returned invalid JSON: " \o payload

\* ---- state.py: ProcessorState --------------------------------------------
\* _write_entry: the line written for (uid, metadata) at time `now`;
\* metadata is a sequence of <<key, value>> pairs (a dict, insertion order)
EntryLine(now, uid, metadata) ==
    LET payload == << <<"timestamp", ToString(now)>>, <<"uid", uid>> >> \o metadata
    IN  Join(" | ", [i \in 1..Len(payload) |-> payload[i][1] \o "=" \o payload[i][2]])

\* (a variant that opens the file with "w": the write replaces the content)
WriteEntry_Truncating(fs, path, now, uid, metadata) ==
    [fs EXCEPT ![path] = SplitLines(EntryLine(now, uid, metadata))]

\* _write_entry: open(path, "a") and write line + "\n"; nothing in the line
\* is escaped, so a value holding a newline ends the file line early
WriteEntry(fs, path, now, uid, metadata) ==
    [fs EXCEPT ![path] = @ \o SplitLines(EntryLine(now, uid, metadata))]

\* record_deleted(uid, metadata)
record_deleted(fs, now, uid, metadata) ==
    WriteEntry(fs, deleted_record_path, now, uid, metadata)

\* record_failed(uid, reason)
record_failed(fs, now, uid, reason) ==
    WriteEntry(fs, failed_record_path, now, uid, << <<"reason", reason>> >>)

\* ---- imap_client.py: ImapClient ------------------------------------------
\* the uid fetch_messages gives a message: the sequence number, decoded
UidOf(seqno) == ToString(seqno)

\* the sequence number a STORE command reads out of a uid string (0: none)
SeqOf(uid) ==
    IF \E n \in 1..(MaxMsgs + 1) : ToString(n) = uid
    THEN CHOOSE n \in 1..(MaxMsgs + 1) : ToString(n) = uid
    ELSE 0

\* STORE uid +FLAGS (\Deleted): flags the message now at that sequence number
Store(box, flags, uid) ==
    IF SeqOf(uid) \in 1..Len(box) THEN flags \cup {box[SeqOf(uid)]} ELSE flags

\* EXPUNGE: removes every flagged message, the rest keep their order
Expunge(box, flags) == SelectSeq(box, LAMBDA m : m \notin flags)

\* ---- str methods ------------------------------------------------------------
UpperCase == "ABCDEFGHIJKLMNOPQRSTUVWXYZ"
LowerCase == "abcdefghijklmnopqrstuvwxyz"

\* upper-case letter -> lower-case letter
LowerMap ==
    [c \in {SubSeq(UpperCase, i, i) : i \in 1..Len(UpperCase)} |->
        LET i == CHOOSE i \in 1..Len(UpperCase) : SubSeq(UpperCase, i, i) = c
        IN  SubSeq(LowerCase, i, i)]

LowerChar(c) == IF c \in DOMAIN LowerMap THEN LowerMap[c] ELSE c

RECURSIVE Lower(_)
\* s.lower()
Lower(s) == IF s = "" THEN "" ELSE LowerChar(SubSeq(s, 1, 1)) \o Lower(SubSeq(s, 2, Len(s)))

\* s.endswith(suffix)
EndsWith(s, suffix) ==
    Len(suffix) <= Len(s) /\ SubSeq(s, Len(s) - Len(suffix) + 1, Len(s)) = suffix

IsSpace(c) == c \in {" ", "\n", "\t"}

RECURSIVE Strip(_)
\* s.strip()
Strip(s) ==
    IF s = "" THEN ""
    ELSE IF IsSpace(SubSeq(s, 1, 1)) THEN Strip(SubSeq(s, 2, Len(s)))
    ELSE IF IsSpace(SubSeq(s, Len(s), Len(s))) THEN Strip(SubSeq(s, 1, Len(s) - 1))
    ELSE s

\* ---- config.py: AttachmentPolicy ------------------------------------------
\* the property max_attachment_size_bytes
max_attachment_size_bytes(policy) == policy.max_attachment_size_mb * 1024 * 1024

\* AttachmentPolicy() with the defaults of the dataclass
DefaultPolicy == [include_pdf_docx |-> TRUE, max_attachment_size_mb |-> 10]

\* ---- attachment_processor.py: AttachmentProcessor -------------------------
SUPPORTED_EXTENSIONS == {".pdf", ".docx"}

\* Path(filename).suffix: from the last dot of the name on, unless that dot
\* is the first or the last character
PathSuffix(filename) ==
    LET dots == {i \in 1..Len(filename) : SubSeq(filename, i, i) = "."}
        last == CHOOSE i \in dots : \A j \in dots : j <= i
    IN  IF dots = {} \/ last = 1 \/ last = Len(filename) THEN ""
        ELSE SubSeq(filename, last, Len(filename))

\* (a variant that compares the name as it is written)
infer_extension_CaseSensitive(filename) ==
    IF \E ext \in SUPPORTED_EXTENSIONS : EndsWith(filename, ext)
    THEN CHOOSE ext \in SUPPORTED_EXTENSIONS : EndsWith(filename, ext)
    ELSE IF Contains(filename, ".") THEN PathSuffix(filename) ELSE ""

infer_extension(filename) ==
    LET lower == Lower(filename)
    IN  IF \E ext \in SUPPORTED_EXTENSIONS : EndsWith(lower, ext)
        THEN CHOOSE ext \in SUPPORTED_EXTENSIONS : EndsWith(lower, ext)
        ELSE IF Contains(filename, ".") THEN Lower(PathSuffix(filename)) ELSE ""

\* The payload of a part is its size in bytes, what the bytes are ("docx": a
\* zip archive with word/document.xml, "pdf", or "garbage") and the text units
\* in it (paragraphs of a docx, pages of a pdf). The result of an extraction
\* is [raised, value]: the text, or the message of the exception.
Returns(value) == [raised |-> FALSE, value |-> value]
Raises(message) == [raised |-> TRUE, value |-> message]

extract_docx_text(payload) ==
    IF payload.format # "docx" THEN Raises("File is not a zip file")
    ELSE Returns(Join("\n", SelectSeq(payload.units, LAMBDA t : t # "")))

\* pdf_reader: whether pypdf could be imported (PdfReader is not None)
extract_pdf_text(pdf_reader, payload) ==
    IF ~pdf_reader THEN Raises("pypdf library is required to extract PDF text")
    ELSE IF payload.format # "pdf" THEN Raises("Stream has ended unexpectedly")
    ELSE LET texts == [i \in 1..Len(payload.units) |-> Strip(payload.units[i])]
         IN  Returns(Join("\n", SelectSeq(texts, LAMBDA t : t # "")))

extract_text(pdf_reader, extension, payload) ==
    IF extension = ".docx" THEN extract_docx_text(payload)
    ELSE IF extension = ".pdf" THEN extract_pdf_text(pdf_reader, payload)
    ELSE Raises("Unsupported extension: " \o extension)

\* ProcessedAttachment; text and reason are Optional[str]: <<>> is None
ProcessedAttachment(filename, content_type, size, text, skipped, reason) ==
    [filename |-> filename, content_type |-> content_type, size |-> size,
     text |-> text, skipped |-> skipped, reason |-> reason]

Skipped(filename, content_type, size, reason) ==
    ProcessedAttachment(filename, content_type, size, <<>>, TRUE, <<reason>>)

\* `if not self.policy.include_pdf_docx`
ForwardingDisabled(policy) == ~policy.include_pdf_docx

\* (a variant that lets image files through to the size check)
Unsupported_ImagesAllowed(extension) ==
    extension \notin SUPPORTED_EXTENSIONS \cup {".png"}

\* `if extension not in self.SUPPORTED_EXTENSIONS`
Unsupported(extension) == extension \notin SUPPORTED_EXTENSIONS

\* (a variant with an exclusive limit)
ExceedsLimit_Exclusive(size, policy) == size >= max_attachment_size_bytes(policy)

\* `if size > self.policy.max_attachment_size_bytes`
ExceedsLimit(size, policy) == size > max_attachment_size_bytes(policy)

\* (a variant that keeps an empty extraction result)
NoText_Never(text) == FALSE

\* `if not text`
NoText(text) == text = ""

\* the body of the loop of process(): the record appended for one part, and
\* whether _extract_text was called for it
ProcessPart(policy, pdf_reader, part) ==
    LET filename == IF part.filename = "" THEN "unnamed" ELSE part.filename
        content_type == part.content_type
        size == part.payload.size
        extension == infer_extension(filename)
        text == extract_text(pdf_reader, extension, part.payload)
    IN  IF ForwardingDisabled(policy)
        THEN [record |-> Skipped(filename, content_type, size,
                            "Attachment forwarding disabled by configuration"),
              extracted |-> FALSE]
        ELSE IF Unsupported(extension)
        THEN [record |-> Skipped(filename, content_type, size, "Unsupported file type"),
              extracted |-> FALSE]
        ELSE IF ExceedsLimit(size, policy)
        THEN [record |-> Skipped(filename, content_type, size,
                            "Attachment exceeds configured size limit"),
              extracted |-> FALSE]
        ELSE IF text.raised
        THEN [record |-> Skipped(filename, content_type, size,
                            "Extraction failed: " \o text.value),
              extracted |-> TRUE]
        ELSE IF NoText(text.value)
        THEN [record |-> Skipped(filename, content_type, size,
                            "No textual content extracted"),
              extracted |-> TRUE]
        ELSE [record |-> ProcessedAttachment(filename, content_type, size,
                            <<text.value>>, FALSE, <<>>),
              extracted |-> TRUE]

RECURSIVE ProcessLoop(_, _, _, _)
\* `for part in message.iter_attachments()`: the results for the parts left
ProcessLoop(policy, pdf_reader, parts, done) ==
    IF parts = <<>> THEN done
    ELSE ProcessLoop(policy, pdf_reader, Tail(parts),
                     Append(done, ProcessPart(policy, pdf_reader, Head(parts))))

\* (a variant that returns only the attachments that were read)
process_DropSkipped(policy, pdf_reader, parts) ==
    LET results == ProcessLoop(policy, pdf_reader, parts, <<>>)
    IN  SelectSeq([i \in 1..Len(results) |-> results[i].record], LAMBDA a : ~a.skipped)

\* process(message): the list of ProcessedAttachment
process(policy, pdf_reader, parts) ==
    LET results == ProcessLoop(policy, pdf_reader, parts, <<>>)
    IN  [i \in 1..Len(results) |-> results[i].record]

\* ---- the messages of the folder -------------------------------------------
Part(filename, size, format, units) ==
    [filename |-> filename, content_type |-> "application/octet-stream",
     payload |-> [size |-> size, format |-> format, units |-> units]]

\* message.iter_attachments() of message m
PartsOn(m) ==
    IF m = 1 THEN <<>>
    ELSE IF m = 2 THEN << Part("doc.docx", 2048, "docx", <<"Hello", "World">>) >>
    ELSE << Part("big.pdf", 10 * 1024 * 1024 + 1, "pdf", <<"Annual report">>),
            Part("a.docx", 512, "garbage", <<>>),
            Part("b.pdf", 4096, "pdf", <<" Page one ", "", "Page two">>) >>

\* the ProcessedAttachment list process() yields for a message, with the
\* default policy and pypdf installed
AttachmentsOn(m) == process(DefaultPolicy, TRUE, PartsOn(m))

\* _handle_post_send: ",".join(att.filename for att in attachments if not att.skipped)
AttachmentSummary(atts) ==
    LET kept == SelectSeq(atts, LAMBDA a : ~a.skipped)
    IN  Join(",", [i \in 1..Len(kept) |-> kept[i].filename])

\* ---- the state after construction ----------------------------------------
\* lines left in the two logs by earlier invocations of the program
PriorFiles ==
    { [p \in Paths |-> <<>>],
      [p \in Paths |->
          IF p = deleted_record_path
          THEN << EntryLine(0, "1", << <<"attachments", "">> >>) >>
          ELSE << EntryLine(0, "2", << <<"reason", "LLM failure">> >>) >>] }

Init ==
    /\ \E n \in 0..MaxMsgs : mailbox = [i \in 1..n |-> i]
    /\ flagged = {}
    /\ trusted \in SUBSET {mailbox[i] : i \in 1..Len(mailbox)}
    /\ files \in PriorFiles
    /\ clock = 1
    /\ delete_after_success \in BOOLEAN
    /\ conn = "none"
    /\ pc = "start"
    /\ envelopes = <<>>
    /\ idx = 0
    /\ attachments = <<>>
    /\ exc = ""
    /\ fetchLog = <<>>
    /\ calls = <<>>
    /\ removedBy = {}
    /\ runs = 1

\* ---- history of capability calls ------------------------------------------
\* one call: the operation, the envelope being processed, the identifier
\* passed, whether it returned (ok) or raised, the ledger line it wrote
Call(op, uid, ok, line) ==
    [op |-> op, env |-> idx, uid |-> uid, ok |-> ok, line |-> line]

Log(op, uid, ok, line) == calls' = Append(calls, Call(op, uid, ok, line))

\* the line a write has just appended to a log
LastLine(fs, path) == fs[path][Len(fs[path])]

\* run(): `for envelope in envelopes` moves on after envelope i
NextPc(i) == IF i < Len(envelopes) THEN "extract" ELSE "done"
NextIdx(i) == IF i < Len(envelopes) THEN i + 1 ELSE i

\* _process_envelope: `except Exception as exc` takes over with str(exc)
Caught(reason) ==
    /\ pc' = "record_failed"
    /\ exc' = reason

Mail == <<mailbox, flagged, trusted>>
Proc == <<envelopes, idx, fetchLog, runs, delete_after_success>>

\* ---- imap_client.py: fetch_messages, called by run() ---------------------
\* the errors fetch_messages lets out: connect(), search(), fetch()
FetchErrors == {"IMAP connect failed", "Failed to search mailbox", "IMAP fetch failed"}

\* config.trusted_senders as the configuration file gives it, and as
\* AppConfig.__post_init__ leaves it
ConfiguredSenders == <<"Andreas.Maier@FAU.de">>
PostInit(senders) == [i \in 1..Len(senders) |-> Lower(senders[i])]
ConfigTrustedSenders == PostInit(ConfiguredSenders)

\* email_message.get("From") or "": the From header of message m. The
\* messages in `trusted` were sent with the trusted address, in one spelling
\* or another; the others were not (a missing header is "")
FromOf(m) ==
    IF m \in trusted
    THEN (IF m = 1 THEN "Andreas Maier <Andreas.Maier@FAU.de>"
          ELSE IF m = 2 THEN "andreas.maier@fau.de"
          ELSE "\"ANDREAS.MAIER@fau.de\" <eve@evil.org>")
    ELSE (IF m = 1 THEN "Eve <eve@evil.org>"
          ELSE IF m = 2 THEN ""
          ELSE "Andreas Maier <andreas.maier@fau.org>")

\* any(sender in from_header for sender in senders), both in lower case
SenderMatches(from_header, trusted_senders) ==
    LET senders == {Lower(trusted_senders[i]) : i \in 1..Len(trusted_senders)}
    IN  \E sender \in senders : Contains(Lower(from_header), sender)

\* bad: the sequence numbers whose FETCH is answered with a status other
\* than OK (logged and skipped)
FetchedEnvelopes(box, senders, bad) ==
    LET keep == [i \in 1..Len(box) |->
                    i \notin bad /\ SenderMatches(FromOf(box[i]), senders)]
        seqnos == SelectIdx(1, Len(box), keep)
    IN  [k \in 1..Len(seqnos) |-> [uid |-> UidOf(seqnos[k]), message |-> box[seqnos[k]]]]

\* (a variant in which run() catches the error, logs it and returns)
FetchFailure_Swallowed(reason) ==
    /\ pc' = "done"
    /\ exc' = reason
    /\ UNCHANGED <<envelopes, idx, fetchLog>>

\* run() has no handler around fetch_messages: its error leaves run()
FetchFailure(reason) ==
    /\ pc' = "raised"
    /\ exc' = reason
    /\ UNCHANGED <<envelopes, idx, fetchLog>>

FetchMessages ==
    /\ pc = "start"
    /\ \E outcome \in {"connect_raises", "search_fails", "fetch_raises", "ok"} :
       \E bad \in SUBSET (1..Len(mailbox)) :
        /\ outcome # "ok" => bad = {}
        /\ outcome = "fetch_raises" => mailbox # <<>>
        /\ IF outcome = "connect_raises"
           THEN \* IMAP4() raised (_conn stays None) or login/select raised
                /\ conn' \in {"none", "open"}
                /\ FetchFailure("IMAP connect failed")
           ELSE IF outcome \in {"search_fails", "fetch_raises"}
           THEN /\ conn' = "open"
                /\ FetchFailure(IF outcome = "search_fails"
                                THEN "Failed to search mailbox" ELSE "IMAP fetch failed")
           ELSE /\ conn' = "open"
                /\ exc' = exc
                /\ fetchLog' = [i \in 1..Len(mailbox) |-> IF i \in bad THEN "NO" ELSE "OK"]
                /\ envelopes' = FetchedEnvelopes(mailbox, ConfigTrustedSenders, bad)
                /\ idx' = IF envelopes' = <<>> THEN 0 ELSE 1
                /\ pc' = IF envelopes' = <<>> THEN "done" ELSE "extract"
    /\ UNCHANGED <<Mail, files, clock, delete_after_success, attachments,
                   calls, removedBy, runs>>

\* ---- processor.py: _process_envelope --------------------------------------
ExtractPlainText ==
    /\ pc = "extract"
    /\ \E ok \in BOOLEAN :
        /\ Log("extract_plain_text", "", ok, "")
        /\ IF ok THEN pc' = "attachments" /\ exc' = exc
                 ELSE Caught("body extraction failed")
    /\ UNCHANGED <<Mail, Proc, files, clock, conn, attachments, removedBy>>

AttachmentProcess ==
    /\ pc = "attachments"
    /\ \E ok \in BOOLEAN :
        /\ Log("process", "", ok, "")
        /\ IF ok THEN /\ pc' = "generate"
                      /\ exc' = exc
                      /\ attachments' = AttachmentsOn(envelopes[idx].message)
                 ELSE /\ Caught("attachment processing failed")
                      /\ UNCHANGED attachments
    /\ UNCHANGED <<Mail, Proc, files, clock, conn, removedBy>>

GenerateReply ==
    /\ pc = "generate"
    /\ \E ok \in BOOLEAN :
        \* generate_reply(body_text, attachments)
        /\ calls' = Append(calls, [op |-> "generate_reply", env |-> idx, uid |-> "",
                                   ok |-> ok, line |-> "", attachments |-> attachments])
        /\ IF ok THEN pc' = "send" /\ exc' = exc
                 ELSE Caught("LLM failure")
    /\ UNCHANGED <<Mail, Proc, files, clock, conn, attachments, removedBy>>

\* (a variant that calls send_mail a second time when the first call raised)
SendMail_RetryOnce ==
    /\ pc = "send"
    /\ \E ok \in BOOLEAN :
        /\ Log("send_mail", "", ok, "")
        /\ IF ok THEN pc' = "post_send" /\ exc' = exc
           ELSE IF \E k \in 1..Len(calls) : calls[k].env = idx /\ calls[k].op = "send_mail"
           THEN Caught("SMTP failure")
           ELSE pc' = "send" /\ exc' = exc
    /\ UNCHANGED <<Mail, Proc, files, clock, conn, attachments, removedBy>>

SendMail ==
    /\ pc = "send"
    /\ \E ok \in BOOLEAN :
        /\ Log("send_mail", "", ok, "")
        /\ IF ok THEN pc' = "post_send" /\ exc' = exc
                 ELSE Caught("SMTP failure")
    /\ UNCHANGED <<Mail, Proc, files, clock, conn, attachments, removedBy>>

\* ---- imap_client.py: delete_message ----------------------------------------
\* connect() returns at once on an open session, else it may raise
DeleteOutcomes ==
    {"store_raises", "expunge_raises", "ok"}
        \cup (IF conn = "none" THEN {"connect_raises"} ELSE {})

\* a STORE on a sequence number the folder no longer has is answered NO,
\* which store() returns without raising (the status is not looked at),
\* or BAD, which imaplib raises: the latter is the outcome "store_raises"
DeleteMessage(uid, outcome) ==
    IF outcome \in {"connect_raises", "store_raises"}
    THEN /\ conn' \in (IF conn = "none" THEN {"none", "open"} ELSE {conn})
         /\ UNCHANGED <<mailbox, flagged, removedBy>>
    ELSE IF outcome = "expunge_raises"
    THEN /\ conn' = "open"
         /\ flagged' = Store(mailbox, flagged, uid)
         /\ UNCHANGED <<mailbox, removedBy>>
    ELSE /\ conn' = "open"
         /\ mailbox' = Expunge(mailbox, Store(mailbox, flagged, uid))
         /\ flagged' = {}
         /\ removedBy' = removedBy \cup
                {<<idx, mailbox[i]>> : i \in {j \in 1..Len(mailbox) :
                                               mailbox[j] \in Store(mailbox, flagged, uid)}}

\* ---- processor.py: _handle_post_send --------------------------------------
\* the branch taken when delete_after_success is set: delete_message(uid)
PostSendDelete ==
    \E outcome \in DeleteOutcomes :
        /\ DeleteMessage(envelopes[idx].uid, outcome)
        /\ Log("delete_message", envelopes[idx].uid, outcome = "ok", "")
        /\ IF outcome = "ok" THEN pc' = "record_deleted" /\ exc' = exc
                             ELSE Caught("IMAP failure")
        /\ UNCHANGED idx

\* the else branch: only a log line, the envelope is done
PostSendRetain ==
    /\ pc' = NextPc(idx)
    /\ idx' = NextIdx(idx)
    /\ UNCHANGED <<mailbox, flagged, conn, removedBy, calls, exc>>

\* (a variant that records the deletion without calling delete_message)
HandlePostSend_SkipDelete ==
    /\ pc = "post_send"
    /\ IF delete_after_success
       THEN /\ pc' = "record_deleted"
            /\ UNCHANGED <<mailbox, flagged, conn, removedBy, calls, exc, idx>>
       ELSE PostSendRetain
    /\ UNCHANGED <<trusted, envelopes, fetchLog, runs, delete_after_success,
                   files, clock, attachments>>

\* (a variant that deletes whatever the queue policy says)
HandlePostSend_IgnorePolicy ==
    /\ pc = "post_send"
    /\ PostSendDelete
    /\ UNCHANGED <<trusted, envelopes, fetchLog, runs, delete_after_success,
                   files, clock, attachments>>

HandlePostSend ==
    /\ pc = "post_send"
    /\ IF delete_after_success THEN PostSendDelete ELSE PostSendRetain
    /\ UNCHANGED <<trusted, envelopes, fetchLog, runs, delete_after_success,
                   files, clock, attachments>>

RecordDeleted ==
    /\ pc = "record_deleted"
    /\ \E ok \in BOOLEAN :
        IF ok
        THEN /\ files' = record_deleted(files, clock, envelopes[idx].uid,
                            << <<"attachments", AttachmentSummary(attachments)>> >>)
             /\ clock' = clock + 1
             /\ Log("record_deleted", envelopes[idx].uid, TRUE, LastLine(files', deleted_record_path))
             /\ pc' = NextPc(idx)
             /\ idx' = NextIdx(idx)
             /\ exc' = exc
        ELSE \* the storage is unwritable: open()/write() raises OSError
             /\ Log("record_deleted", envelopes[idx].uid, FALSE, "")
             /\ Caught("ledger unwritable")
             /\ UNCHANGED <<files, clock, idx>>
    /\ UNCHANGED <<Mail, envelopes, fetchLog, runs, delete_after_success, conn,
                   attachments, removedBy>>

\* ---- processor.py: the except block of _process_envelope ------------------
RecordFailed ==
    /\ pc = "record_failed"
    /\ \E ok \in BOOLEAN :
        IF ok
        THEN /\ files' = record_failed(files, clock, envelopes[idx].uid, exc)
             /\ clock' = clock + 1
             /\ Log("record_failed", envelopes[idx].uid, TRUE, LastLine(files', failed_record_path))
             /\ pc' = "mark_failed"
             /\ exc' = exc
        ELSE \* the OSError leaves the except block and run()
             /\ Log("record_failed", envelopes[idx].uid, FALSE, "")
             /\ pc' = "raised"
             /\ exc' = "ledger unwritable"
             /\ UNCHANGED <<files, clock>>
    /\ UNCHANGED <<Mail, Proc, conn, attachments, removedBy>>

\* imap_client.mark_failed only logs a warning
MarkFailed ==
    /\ pc = "mark_failed"
    /\ Log("mark_failed", envelopes[idx].uid, TRUE, "")
    /\ pc' = NextPc(idx)
    /\ idx' = NextIdx(idx)
    /\ exc' = ""
    /\ UNCHANGED <<Mail, envelopes, fetchLog, runs, delete_after_success, files,
                   clock, conn, attachments, removedBy>>

Next ==
    \/ FetchMessages
    \/ ExtractPlainText
    \/ AttachmentProcess
    \/ GenerateReply
    \/ SendMail
    \/ HandlePostSend
    \/ RecordDeleted
    \/ RecordFailed
    \/ MarkFailed

Spec == Init /\ [][Next]_vars

\* ---- the ledger on its own: state.py driven by arbitrary callers ----------
LedgerUids == {"1", "2"}
LedgerMetadata == {<<>>, << <<"attachments", "a.docx,b.pdf">> >>}
\* str(exc) of the errors the pipeline hands to record_failed; the payload of
\* an LLM answer that is not JSON is free text
LedgerReasons ==
    {"LLM failure", "SMTP failure", InvalidJsonError("Sorry,\nI cannot reply")}

InitLedger ==
    /\ mailbox = <<>>
    /\ flagged = {}
    /\ trusted = {}
    /\ files \in PriorFiles
    /\ clock = 1
    /\ delete_after_success = TRUE
    /\ conn = "none"
    /\ pc = "ledger"
    /\ envelopes = <<>>
    /\ idx = 0
    /\ attachments = <<>>
    /\ exc = ""
    /\ fetchLog = <<>>
    /\ calls = <<>>
    /\ removedBy = {}
    /\ runs = 1

LedgerFrame == <<Mail, Proc, conn, pc, attachments, exc, removedBy>>

\* ProcessorState.record_deleted(uid, metadata)
LedgerRecordDeleted ==
    /\ pc = "ledger"
    /\ Len(calls) < MaxWrites
    /\ \E uid \in LedgerUids, metadata \in LedgerMetadata :
        /\ files' = record_deleted(files, clock, uid, metadata)
        /\ Log("record_deleted", uid, TRUE, LastLine(files', deleted_record_path))
    /\ clock' = clock + 1
    /\ UNCHANGED LedgerFrame

\* ProcessorState.record_failed(uid, reason)
LedgerRecordFailed ==
    /\ pc = "ledger"
    /\ Len(calls) < MaxWrites
    /\ \E uid \in LedgerUids, reason \in LedgerReasons :
        /\ files' = record_failed(files, clock, uid, reason)
        /\ Log("record_failed", uid, TRUE, LastLine(files', failed_record_path))
    /\ clock' = clock + 1
    /\ UNCHANGED LedgerFrame

\* ProcessorState.__init__ in a new process, on the files already there:
\* only the parent directories are made
LedgerConstruct ==
    /\ pc = "ledger"
    /\ runs < MaxRuns
    /\ runs' = runs + 1
    /\ UNCHANGED <<Mail, envelopes, idx, fetchLog, delete_after_success, conn, pc,
                   attachments, exc, removedBy, files, clock, calls>>

NextLedger ==
    \/ LedgerRecordDeleted
    \/ LedgerRecordFailed
    \/ LedgerConstruct

SpecLedger == InitLedger /\ [][NextLedger]_vars

\* ---- llm_client.py: LLMClient ------------------------------------------------
\* _supports_sampling_controls(model_name)
supports_sampling_controls(model_name) ==
    LET lowered == Lower(model_name)
    IN  ~\E prefix \in {"gpt-5", "gpt-o", "o1", "o3", "realtime"} : IsPrefix(prefix, lowered)

\* str(b) of a Python bool
PyBool(b) == IF b THEN "True" ELSE "False"

\* _build_prompt(body_text, attachments)
build_prompt(body_text, atts) ==
    LET section(a) ==
            Join("\n", << "Filename: " \o a.filename,
                          "Content-Type: " \o a.content_type,
                          "Size: " \o ToString(a.size) \o " bytes",
                          "Skipped: " \o PyBool(a.skipped),
                          "Reason: " \o (IF a.reason = <<>> \/ a.reason = <<"">>
                                         THEN "n/a" ELSE a.reason[1]) >>
                       \o (IF a.text = <<>> \/ a.text = <<"">> THEN <<>>
                           ELSE << "Content:\n" \o a.text[1] >>))
        attachment_block ==
            IF atts = <<>> THEN "(no attachments)"
            ELSE Join("\n\n", [i \in 1..Len(atts) |-> section(atts[i])])
    IN  "Trusted sender email body:\n" \o body_text \o "\n\n"
        \o "Attachment summaries:\n" \o attachment_block \o "\n\n"
        \o "Respond with JSON containing keys to, subject, body_text."

\* the keyword arguments generate_reply builds for responses.create
request_kwargs(settings, prompt) ==
    LET base == [model |-> settings.model,
                 input |-> << [role |-> "system",
                               content |-> "Respond ONLY with JSON matching the schema {to, subject, body_text}."],
                              [role |-> "user", content |-> prompt] >>,
                 max_output_tokens |-> settings.max_tokens,
                 response_format |-> [type |-> "json_object"]]
    IN  IF supports_sampling_controls(settings.model) /\ settings.temperature # <<>>
        THEN [temperature |-> settings.temperature[1]] @@ base
        ELSE base

RECURSIVE Chunks(_)
\* the non-empty text values of the contents of the output items, in order
Chunks(output) ==
    IF output = <<>> THEN <<>>
    ELSE SelectSeq(Head(output).content, LAMBDA t : t # "") \o Chunks(Tail(output))

\* _extract_text_payload(response)
extract_text_payload(response) ==
    IF response.output_text # "" /\ Strip(response.output_text) # ""
    THEN Strip(response.output_text)
    ELSE IF response.output = <<>> THEN ""
    ELSE Strip(Join("", Chunks(response.output)))

\* json.loads on the documents the model's API answers with; any other text
\* is not JSON
ReplyJson == "{\"to\":\"x@y.z\",\"subject\":\"Done\",\"body_text\":\"All good\"}"
IncompleteJson == "{\"to\":\"x@y.z\",\"subject\":\"Done\"}"

json_loads(payload) ==
    IF payload = ReplyJson
    THEN Returns([to |-> "x@y.z", subject |-> "Done", body_text |-> "All good"])
    ELSE IF payload = IncompleteJson
    THEN Returns([to |-> "x@y.z", subject |-> "Done"])
    ELSE Raises("Expecting value: line 1 column 1 (char 0)")

\* str(data) of a parsed document
DictRepr(data) ==
    Join(", ", [i \in 1..Len(SelectSeq(<<"to", "subject", "body_text">>,
                                        LAMBDA key : key \in DOMAIN data)) |->
                  LET key == SelectSeq(<<"to", "subject", "body_text">>,
                                       LAMBDA k : k \in DOMAIN data)[i]
                  IN  "'" \o key \o "': '" \o data[key] \o "'"])

\* generate_reply, from the response of responses.create on
reply_from(response) ==
    LET payload == extract_text_payload(response)
        parsed == json_loads(payload)
        missing == SelectSeq(<<"to", "subject", "body_text">>,
                             LAMBDA key : key \notin DOMAIN parsed.value)
    IN  IF payload = "" THEN Raises("LLM response did not contain any text payload")
        ELSE IF parsed.raised THEN Raises(InvalidJsonError(payload))
        ELSE IF missing # <<>>
        THEN Raises("LLM response missing '" \o missing[1] \o "' field: {"
                    \o DictRepr(parsed.value) \o "}")
        ELSE Returns([to |-> parsed.value.to, subject |-> parsed.value.subject,
                      body_text |-> parsed.value.body_text])

\* responses.create(**kwargs) of the API client
client_create(client, kwargs) ==
    IF client.fail_on_response_format /\ "response_format" \in DOMAIN kwargs
    THEN Raises("Responses.create() got an unexpected keyword argument 'response_format'")
    ELSE Returns(client.response)

\* generate_reply(body_text, attachments): the keyword arguments of every
\* responses.create call it makes, in order, and its result. It makes one
\* call; an exception of that call is not handled.
generate_reply(settings, client, body_text, atts) ==
    LET kwargs == request_kwargs(settings, build_prompt(body_text, atts))
        response == client_create(client, kwargs)
    IN  [creates |-> <<kwargs>>,
         result |-> IF response.raised THEN response ELSE reply_from(response.value)]

\* ---- LLMClient.generate_reply on its own, against a stub API client --------
\* the state of a component that is driven on its own, at position `at`
InitAt(at) ==
    /\ mailbox = <<>>
    /\ flagged = {}
    /\ trusted = {}
    /\ files = [p \in Paths |-> <<>>]
    /\ clock = 1
    /\ delete_after_success = TRUE
    /\ conn = "none"
    /\ pc = at
    /\ envelopes = <<>>
    /\ idx = 0
    /\ attachments = <<>>
    /\ exc = ""
    /\ fetchLog = <<>>
    /\ calls = <<>>
    /\ removedBy = {}
    /\ runs = 1

\* what only the capability history changes
UnitFrame == <<Mail, Proc, files, clock, conn, pc, attachments, exc, removedBy>>

\* LLMSettings: the model name and the temperature (None: <<>>)
LLMSettingsSet ==
    [model : {"gpt-5", "gpt-4o-mini", "O3-mini"}, temperature : {<<>>, <<"0.2">>},
     max_tokens : {1500}]

\* what the API answers: output_text (None or empty: "") and the output items
LLMResponses ==
    { [output_text |-> ReplyJson, output |-> <<>>],
      [output_text |-> " " \o ReplyJson \o "\n", output |-> <<>>],
      [output_text |-> "", output |-> << [content |-> <<ReplyJson>>] >>],
      [output_text |-> "  ", output |-> << [content |-> <<"", IncompleteJson>>] >>],
      [output_text |-> "", output |-> <<>>],
      [output_text |-> "Sorry,\nI cannot reply", output |-> <<>>] }

\* the stub client of the tests: it answers `response`, and with
\* fail_on_response_format it raises TypeError on a response_format argument
LLMClients == [response : LLMResponses, fail_on_response_format : BOOLEAN]

InitLLM == InitAt("llm")

LLMGenerateReply ==
    /\ pc = "llm"
    /\ calls = <<>>
    /\ \E settings \in LLMSettingsSet, client \in LLMClients,
          body_text \in {"hello", ""}, atts \in {<<>>, AttachmentsOn(MaxMsgs)} :
        LET r == generate_reply(settings, client, body_text, atts)
        IN  calls' = [i \in 1..Len(r.creates) |->
                         [op |-> "responses.create", kwargs |-> r.creates[i]]]
                     \o << [op |-> "generate_reply", settings |-> settings,
                            client |-> client, result |-> r.result] >>
    /\ UNCHANGED UnitFrame

NextLLM == LLMGenerateReply

SpecLLM == InitLLM /\ [][NextLLM]_vars

\* ---- AttachmentProcessor.process on its own ---------------------------------
Policies == [include_pdf_docx : BOOLEAN, max_attachment_size_mb : 0..MaxSizeMb]

\* part.get_filename(): None is ""
Filenames == {"report.docx", "SCAN.PDF", "photo.png", ""}

\* payload sizes at every limit and one byte over it
PayloadSizes ==
    UNION {{mb * 1024 * 1024, mb * 1024 * 1024 + 1} : mb \in 0..MaxSizeMb}

\* what the bytes are: a docx with text, a docx without, a pdf, no document
PayloadContents ==
    { <<"docx", <<"Hello", "World">> >>, <<"docx", <<>> >>,
      <<"pdf", <<" Page one ", "", "Page two">> >>, <<"garbage", <<>> >> }

\* a payload of 0 or 1 bytes is no document
AttachmentParts ==
    {pt \in {Part(f, n, c[1], c[2]) : f \in Filenames, n \in PayloadSizes,
                                      c \in PayloadContents} :
        pt.payload.size <= 1 => pt.payload.format = "garbage"}

PartLists == UNION {[1..n -> AttachmentParts] : n \in 0..MaxParts}

InitAttach == InitAt("attach")

\* one call of process(message) with a policy, and pypdf installed or not
AttachProcess ==
    /\ pc = "attach"
    /\ calls = <<>>
    /\ \E policy \in Policies, pdf_reader \in BOOLEAN, parts \in PartLists :
        LET results == ProcessLoop(policy, pdf_reader, parts, <<>>)
        IN  /\ attachments' = process(policy, pdf_reader, parts)
            /\ calls' = << [op |-> "process", policy |-> policy,
                            pdf_reader |-> pdf_reader, parts |-> parts,
                            extracted |-> [i \in 1..Len(results) |-> results[i].extracted]] >>
    /\ UNCHANGED <<Mail, Proc, files, clock, conn, pc, exc, removedBy>>

NextAttach == AttachProcess

SpecAttach == InitAttach /\ [][NextAttach]_vars

\* ---- processor.py: _determine_recipient and send_mail, on their own ---------
RECURSIVE RemoveComments(_)
\* the header without its parenthesised comments
RemoveComments(s) ==
    IF ~Contains(s, "(") THEN s
    ELSE LET open == CHOOSE i \in 1..Len(s) :
                        /\ SubSeq(s, i, i) = "("
                        /\ \A j \in 1..(i - 1) : SubSeq(s, j, j) # "("
             closes == {i \in (open + 1)..Len(s) : SubSeq(s, i, i) = ")"}
             close == IF closes = {} THEN Len(s)
                      ELSE CHOOSE i \in closes : \A j \in closes : i <= j
         IN  SubSeq(s, 1, open - 1) \o RemoveComments(SubSeq(s, close + 1, Len(s)))

\* email.utils.parseaddr(header)[1]: the address between angle brackets, or
\* a lone word; "" when the header holds no address
ParseAddr(header) ==
    LET h == Strip(RemoveComments(header))
        opens == {i \in 1..Len(h) : SubSeq(h, i, i) = "<"}
        lt == CHOOSE i \in opens : \A j \in opens : i <= j
        closes == {i \in 1..Len(h) : SubSeq(h, i, i) = ">" /\ i > lt}
        gt == CHOOSE i \in closes : \A j \in closes : i <= j
    IN  IF opens # {} /\ closes # {} THEN SubSeq(h, lt + 1, gt - 1)
        ELSE IF h # "" /\ ~Contains(h, " ") /\ ~Contains(h, ":") /\ opens = {} THEN h
        ELSE ""

\* (a variant that falls back to the generated recipient)
determine_recipient_FallsBackToReply(safe_mode, trusted_senders, from_header, reply) ==
    IF ~safe_mode THEN reply.to
    ELSE IF ParseAddr(from_header) # "" THEN ParseAddr(from_header)
    ELSE reply.to

\* _determine_recipient(message, reply), with message.get("From", "")
determine_recipient(safe_mode, trusted_senders, from_header, reply) ==
    IF ~safe_mode THEN reply.to
    ELSE LET sender_address == ParseAddr(from_header)
         IN  IF sender_address # "" THEN sender_address ELSE trusted_senders[1]

\* message.get("From", ""): a missing header is ""
FromHeaders ==
    { "Andreas Maier <Andreas.Maier@FAU.de>", "andreas.maier@fau.de",
      "\"andreas.maier@fau.de\" <eve@evil.org>", "(Andreas.Maier@FAU.de)",
      "undisclosed-recipients:;", "" }

\* config.trusted_senders, as __post_init__ leaves it: not empty, lower case
TrustedSenderLists == { <<"andreas.maier@fau.de">>, <<"@fau.de", "andreas.maier@fau.de">> }

\* the LLMReply generate_reply returned
Replies == [to : {"x@y.z", "eve@evil.org", ""}, subject : {"Done", ""}, body_text : {"All good"}]

InitRecipient == InitAt("recipient")

\* _process_envelope, from the reply on: the recipient is determined and
\* send_mail(recipient, reply.subject, reply.body_text) is called
SendReply ==
    /\ pc = "recipient"
    /\ calls = <<>>
    /\ \E safe_mode \in BOOLEAN, trusted_senders \in TrustedSenderLists,
          from_header \in FromHeaders, reply \in Replies :
        calls' = << [op |-> "send_mail",
                     to |-> determine_recipient(safe_mode, trusted_senders, from_header, reply),
                     subject |-> reply.subject, body_text |-> reply.body_text,
                     safe_mode |-> safe_mode, trusted_senders |-> trusted_senders,
                     from_header |-> from_header, reply |-> reply] >>
    /\ UNCHANGED UnitFrame

NextRecipient == SendReply

SpecRecipient == InitRecipient /\ [][NextRecipient]_vars

\* ==== the claims ============================================================
EnvIdx == 1..Len(envelopes)

\* the calls of operation op made while envelope i was being processed
CallsOf(i, op) == {k \in 1..Len(calls) : calls[k].env = i /\ calls[k].op = op}
Count(i, op) == Cardinality(CallsOf(i, op))
Returned(i, op) == \E k \in CallsOf(i, op) : calls[k].ok
Raised(i, op) == \E k \in CallsOf(i, op) : ~calls[k].ok

\* the loop of run() has gone past envelope i
MovedOn(i) == i \in EnvIdx /\ (idx > i \/ pc = "done")
\* ... or run() ended while on envelope i
Over(i) == MovedOn(i) \/ (i \in EnvIdx /\ idx = i /\ pc = "raised")
\* envelope i was taken up by _process_envelope
Attempted(i) == \E k \in 1..Len(calls) : calls[k].env = i
\* a step of the try block of envelope i raised
ProcessingFailed(i) ==
    \E k \in 1..Len(calls) :
        calls[k].env = i /\ ~calls[k].ok /\ calls[k].op # "record_failed"
\* run() is over (returned or raised) after a successful fetch
RunOver == pc \in {"done", "raised"} /\ exc \notin FetchErrors
\* line k of the call history is in the log at path
InLog(path, k) == \E j \in 1..Len(files[path]) : files[path][j] = calls[k].line
InMailbox(m) == \E j \in 1..Len(mailbox) : mailbox[j] = m

\* C1: the failure of one envelope never aborts the run: whatever call fails
\* (the record_failed call of the failure handling included), run() does not
\* raise and every later envelope is still attempted.
C1_FailureNeverAbortsRun ==
    RunOver => (pc = "done" /\ \A i \in EnvIdx : Attempted(i))

\* C2: every envelope the run is done with has exactly one ledger outcome: one
\* 'deleted' line, or one 'failed' line, or none (only after a success with
\* delete-after-success disabled); never both, never neither after a failure.
C2_ExactlyOneOutcome ==
    \A i \in EnvIdx : Over(i) =>
        LET d == Cardinality({k \in CallsOf(i, "record_deleted") : calls[k].ok})
            f == Cardinality({k \in CallsOf(i, "record_failed") : calls[k].ok})
        IN  /\ d + f <= 1
            /\ ProcessingFailed(i) => f = 1
            /\ d + f = 0 => (~ProcessingFailed(i) /\ ~delete_after_success)
            /\ \A k \in CallsOf(i, "record_deleted") :
                   calls[k].ok => InLog(deleted_record_path, k)
            /\ \A k \in CallsOf(i, "record_failed") :
                   calls[k].ok => InLog(failed_record_path, k)

\* C3: a message with a 'failed' ledger entry of this run has not been removed
\* from the mailbox: it is still there for a future run.
C3_FailedMessageRetained ==
    \A i \in EnvIdx :
        Returned(i, "record_failed") => InMailbox(envelopes[i].message)

\* C4 (as stated): when generate_reply and send_mail succeed and
\* delete-after-success is enabled, delete_message is invoked exactly once with
\* the envelope's identifier, then exactly one 'deleted' line with uid=<id> is
\* appended; mark_failed is not invoked and no 'failed' line is written.
C4_Original ==
    \A i \in EnvIdx :
        (Returned(i, "generate_reply") /\ Returned(i, "send_mail") /\ delete_after_success)
        => /\ Count(i, "mark_failed") = 0
           /\ ~Returned(i, "record_failed")
           /\ Count(i, "delete_message") <= 1
           /\ MovedOn(i) =>
                /\ Count(i, "delete_message") = 1
                /\ Cardinality({k \in CallsOf(i, "record_deleted") : calls[k].ok}) = 1

\* C4 (amended): a 'deleted' line is appended for an envelope only after
\* delete_message returned for it; and when generate_reply, send_mail,
\* delete_message and record_deleted all return with delete-after-success
\* enabled, delete_message was invoked exactly once, with the envelope's
\* identifier, exactly one 'deleted' line containing uid=<id> was appended
\* after it, mark_failed was not invoked and no 'failed' line was written.
C4_DeleteThenRecord ==
    \A i \in EnvIdx :
        /\ \A kr \in CallsOf(i, "record_deleted") :
               \E kd \in CallsOf(i, "delete_message") : kd < kr /\ calls[kd].ok
        /\ (/\ Returned(i, "generate_reply") /\ Returned(i, "send_mail")
            /\ delete_after_success
            /\ Returned(i, "delete_message") /\ Returned(i, "record_deleted"))
           => /\ Count(i, "delete_message") = 1
              /\ \A kd \in CallsOf(i, "delete_message") : calls[kd].uid = envelopes[i].uid
              /\ Count(i, "record_deleted") = 1
              /\ \A kr \in CallsOf(i, "record_deleted") :
                    /\ InLog(deleted_record_path, kr)
                    /\ Contains(calls[kr].line, "uid=" \o envelopes[i].uid)
              /\ Count(i, "mark_failed") = 0
              /\ Count(i, "record_failed") = 0

\* an envelope was deleted and recorded, and the run went on
C4_Witness ==
    \E i \in EnvIdx : MovedOn(i) /\ Returned(i, "record_deleted")

\* C5: when generate_reply raises for an envelope, send_mail and
\* delete_message are never invoked for it and no 'deleted' line is written;
\* once the run is done with the envelope, mark_failed was invoked exactly once
\* with its identifier and exactly one 'failed' line was appended, containing
\* uid=<id> and reason=<the error's string>.
C5_GenerateFailureRecorded ==
    \A i \in EnvIdx :
        Raised(i, "generate_reply")
        => /\ Count(i, "send_mail") = 0
           /\ Count(i, "delete_message") = 0
           /\ Count(i, "record_deleted") = 0
           /\ Over(i) =>
                /\ Count(i, "mark_failed") = 1
                /\ \A k \in CallsOf(i, "mark_failed") : calls[k].uid = envelopes[i].uid
                /\ Cardinality({k \in CallsOf(i, "record_failed") : calls[k].ok}) = 1
                /\ \A k \in CallsOf(i, "record_failed") :
                      /\ InLog(failed_record_path, k)
                      /\ Contains(calls[k].line, "uid=" \o envelopes[i].uid)
                      /\ Contains(calls[k].line, "reason=LLM failure")

\* C6: with delete-after-success disabled, an envelope whose generate_reply
\* and send_mail returned gets no delete_message, mark_failed, record_deleted
\* or record_failed call, and the step after its send leaves the mailbox, its
\* flags and both logs as they were.
C6_DisabledLeavesAllInPlace ==
    /\ [](~delete_after_success =>
            \A i \in EnvIdx :
                (Returned(i, "generate_reply") /\ Returned(i, "send_mail"))
                => /\ Count(i, "delete_message") = 0
                   /\ Count(i, "mark_failed") = 0
                   /\ Count(i, "record_deleted") = 0
                   /\ Count(i, "record_failed") = 0
                   /\ InMailbox(envelopes[i].message))
    /\ [][(pc = "post_send" /\ ~delete_after_success)
            => (mailbox' = mailbox /\ flagged' = flagged /\ files' = files
                /\ calls' = calls)]_vars

\* a successful envelope is behind the run, with deletion disabled
C6_Witness ==
    /\ ~delete_after_success
    /\ \E i \in EnvIdx : MovedOn(i) /\ Returned(i, "send_mail")

\* C7 (as stated): any failure while obtaining the messages (connection,
\* search, or the fetch of a message) aborts run() with the error propagated;
\* no envelope is processed, no call is made, nothing is written.
C7_Original ==
    (exc \in FetchErrors \/ \E j \in 1..Len(fetchLog) : fetchLog[j] # "OK")
    => (pc = "raised" /\ envelopes = <<>> /\ calls = <<>> /\ files \in PriorFiles)

\* C7 (amended): a failure to connect, a failed search or an error raised by
\* a fetch aborts run() with the error propagated, and then no envelope is
\* processed, no call is made and nothing is written. A fetch answered with a
\* status other than OK does not abort the run: that message is skipped, and
\* the envelopes are exactly the trusted messages whose fetch was answered OK.
C7_FetchFailureAborts ==
    /\ exc \in FetchErrors
       => /\ pc = "raised"
          /\ envelopes = <<>>
          /\ calls = <<>>
          /\ files \in PriorFiles
          /\ removedBy = {}
    /\ (pc # "start" /\ exc \notin FetchErrors)
       => \A j \in 1..Len(fetchLog) :
            (\E k \in EnvIdx : envelopes[k].uid = UidOf(j))
                <=> (fetchLog[j] = "OK" /\ j \in trusted)

\* the search failed on a mailbox that holds messages of trusted senders
C7_Witness ==
    pc = "raised" /\ exc = "Failed to search mailbox" /\ trusted # {}

\* C8: when run() is over after a successful fetch, every fetched envelope
\* has been attempted exactly once; the calls are made envelope by envelope,
\* in the order of the fetched list.
C8_EveryEnvelopeOnceInOrder ==
    /\ RunOver => \A i \in EnvIdx : Count(i, "extract_plain_text") = 1
    /\ \A k, l \in 1..Len(calls) : k < l => calls[k].env <= calls[l].env

\* C9: a delete_message(identifier) that returns removes exactly the message
\* the envelope with that identifier was fetched for, and no other message.
C9_DeleteRemovesProcessedMessage ==
    \A i \in EnvIdx :
        Returned(i, "delete_message")
        => {m \in MsgIds : <<i, m>> \in removedBy} = {envelopes[i].message}

\* C10: both logs are append-only: every step leaves the content of each log a
\* prefix of its new content, also across a new construction of the ledger on
\* the existing files; record_deleted changes the deleted log only and
\* record_failed the failed log only.
C10_LedgersAppendOnly ==
    [][/\ \A p \in Paths : IsPrefix(files[p], files'[p])
       /\ (calls' # calls /\ calls'[Len(calls')].op = "record_deleted")
          => /\ files'[failed_record_path] = files[failed_record_path]
             /\ files'[deleted_record_path] # files[deleted_record_path]
       /\ (calls' # calls /\ calls'[Len(calls')].op = "record_failed")
          => /\ files'[deleted_record_path] = files[deleted_record_path]
             /\ files'[failed_record_path] # files[failed_record_path]
       /\ runs' # runs => files' = files]_vars

\* both logs already held a line, the ledger was constructed again and each
\* log then received another line
C10_Witness ==
    /\ runs > 1
    /\ Len(files[deleted_record_path]) > 1
    /\ Len(files[failed_record_path]) > 1
    /\ Len(calls) > 1

\* the lines of the log at path that earlier invocations left there
PriorLen(path) ==
    IF \E f \in PriorFiles : f[path] # <<>> /\ IsPrefix(f[path], files[path])
    THEN 1 ELSE 0

\* a line of the failed log: timestamp=..., uid=..., reason=..., in this order
\* and joined by the delimiter
FailedEntryForm(line) ==
    /\ IsPrefix("timestamp=", line)
    /\ \E i \in 1..Len(line) :
          /\ SubSeq(line, i, i + 6) = " | uid="
          /\ \E j \in (i + 7)..Len(line) : SubSeq(line, j, j + 9) = " | reason="

\* C11: for every identifier and every reason string (the LLM error text that
\* embeds the raw response payload included) record_failed appends exactly one
\* line: the failed log holds as many new lines as record_failed calls were
\* made, and each of its lines has the form timestamp=... | uid=<identifier> |
\* reason=<reason>.
C11_OneLinePerFailure ==
    LET log == files[failed_record_path]
        failures == {k \in 1..Len(calls) : calls[k].op = "record_failed" /\ calls[k].ok}
    IN  /\ Len(log) - PriorLen(failed_record_path) = Cardinality(failures)
        /\ \A j \in 1..Len(log) : FailedEntryForm(log[j])

\* C12: every resource acquired during a run is released on every exit path:
\* whenever run() has returned or raised, the IMAP session that fetch_messages
\* or delete_message opened is closed (ImapClient._conn is None again). (The
\* ledger opens its file inside a `with` block of _write_entry, so no handle
\* outlives a write.)
C12_SessionClosedAfterRun ==
    pc \in {"done", "raised"} => conn = "none"

\* the responses.create calls made so far, in order
CreateCalls == SelectSeq(calls, LAMBDA c : c.op = "responses.create")

\* C13: if the API client rejects the request because of the response_format
\* argument (TypeError on the first call), generate_reply retries: it makes
\* exactly two calls to responses.create, the first with response_format and
\* the second without it, and returns the reply parsed from the second call's
\* response.
C13_RetriesWithoutResponseFormat ==
    \A k \in 1..Len(calls) :
        (calls[k].op = "generate_reply" /\ calls[k].client.fail_on_response_format)
        => /\ Len(CreateCalls) = 2
           /\ "response_format" \in DOMAIN CreateCalls[1].kwargs
           /\ "response_format" \notin DOMAIN CreateCalls[2].kwargs
           /\ calls[k].result = reply_from(calls[k].client.response)

\* ---- claims about AttachmentProcessor.process ---------------------------------
\* the name process() gives a part
PartName(part) == IF part.filename = "" THEN "unnamed" ELSE part.filename

\* the name ends in .pdf or .docx, whatever the case of its letters
SupportedName(name) ==
    \E e \in {"pdf", "docx"} : EndsWith(Lower(name), "." \o e)

ByteLimit(policy) == policy.max_attachment_size_mb * 1024 * 1024

\* what extracting the text of a part with a supported name does
Extraction(pdf_reader, part) ==
    extract_text(pdf_reader,
                 IF EndsWith(Lower(PartName(part)), ".pdf") THEN ".pdf" ELSE ".docx",
                 part.payload)

\* the reasons of the decision sequence a reason text states
ReasonKinds(reason) ==
    LET text == Lower(reason)
    IN  {kind \in {"forwarding-disabled", "unsupported-type", "size-exceeded",
                   "extraction-failed", "no-text-extracted"} :
            \/ kind = "forwarding-disabled"
                  /\ Contains(text, "forwarding disabled by configuration")
            \/ kind = "unsupported-type" /\ text = "unsupported file type"
            \/ kind = "size-exceeded" /\ Contains(text, "exceeds")
                  /\ Contains(text, "size limit")
            \/ kind = "extraction-failed" /\ IsPrefix("extraction failed: ", text)
            \/ kind = "no-text-extracted" /\ text = "no textual content extracted"}

\* the rule of the decision sequence that is the first to match a part
FirstRule(policy, pdf_reader, part) ==
    IF ~policy.include_pdf_docx THEN "forwarding-disabled"
    ELSE IF ~SupportedName(PartName(part)) THEN "unsupported-type"
    ELSE IF part.payload.size > ByteLimit(policy) THEN "size-exceeded"
    ELSE IF Extraction(pdf_reader, part).raised THEN "extraction-failed"
    ELSE IF Extraction(pdf_reader, part).value = "" THEN "no-text-extracted"
    ELSE "kept"

\* the calls of process() on its own, and the record of part j of call k
ProcessCalls == {k \in 1..Len(calls) : calls[k].op = "process"}
SkippedFor(rec, kind) ==
    rec.skipped /\ rec.reason # <<>> /\ ReasonKinds(rec.reason[1]) = {kind}

\* C14: process decides each attachment by the first matching rule, in this
\* order: (1) forwarding disabled, (2) extension not pdf or docx, compared
\* case-insensitively, (3) size over the byte limit, (4) extraction raises:
\* 'extraction failed: <cause>', (5) extracted text empty, (6) otherwise not
\* skipped, with the text set. Extraction is attempted only when rules 1-3 do
\* not match.
C14_FirstMatchingRule ==
    \A k \in ProcessCalls : \A j \in 1..Len(calls[k].parts) :
        LET c == calls[k]
            rec == attachments[j]
            rule == FirstRule(c.policy, c.pdf_reader, c.parts[j])
            x == Extraction(c.pdf_reader, c.parts[j])
        IN  /\ rule # "kept" => SkippedFor(rec, rule) /\ rec.text = <<>>
            /\ rule = "extraction-failed"
                  => rec.reason[1] = "Extraction failed: " \o x.value
            /\ rule = "kept"
                  => ~rec.skipped /\ rec.text = <<x.value>> /\ rec.reason = <<>>
            /\ c.extracted[j]
                  <=> rule \in {"extraction-failed", "no-text-extracted", "kept"}

\* forwarding is disabled and a part of supported type and acceptable size
\* was skipped for it; no extraction was attempted
C14_Witness ==
    \E k \in ProcessCalls : \E j \in 1..Len(calls[k].parts) :
        /\ ~calls[k].policy.include_pdf_docx
        /\ calls[k].parts[j].filename = "SCAN.PDF"
        /\ calls[k].parts[j].payload.size <= ByteLimit(calls[k].policy)
        /\ calls[k].parts[j].payload.format = "pdf"
        /\ SkippedFor(attachments[j], "forwarding-disabled")
        /\ ~calls[k].extracted[j]

\* C15 (as stated): every attachment whose filename extension is outside the
\* supported set is skipped with reason 'unsupported file type', regardless of
\* payload content or size.
C15_Original ==
    \A k \in ProcessCalls : \A j \in 1..Len(calls[k].parts) :
        ~SupportedName(PartName(calls[k].parts[j]))
        => SkippedFor(attachments[j], "unsupported-type")

\* C15 (amended): with forwarding enabled, every attachment whose filename
\* extension is outside the supported set is skipped with reason 'unsupported
\* file type', regardless of payload content or size; with forwarding
\* disabled it is skipped with the forwarding-disabled reason.
C15_UnsupportedTypeSkipped ==
    \A k \in ProcessCalls : \A j \in 1..Len(calls[k].parts) :
        ~SupportedName(PartName(calls[k].parts[j]))
        => IF calls[k].policy.include_pdf_docx
           THEN SkippedFor(attachments[j], "unsupported-type")
           ELSE SkippedFor(attachments[j], "forwarding-disabled")

\* a .png part that holds a readable docx over the size limit was skipped
\* for its type
C15_Witness ==
    \E k \in ProcessCalls : \E j \in 1..Len(calls[k].parts) :
        /\ calls[k].policy.include_pdf_docx
        /\ calls[k].parts[j].filename = "photo.png"
        /\ calls[k].parts[j].payload.format = "docx"
        /\ calls[k].parts[j].payload.size > ByteLimit(calls[k].policy)
        /\ SkippedFor(attachments[j], "unsupported-type")

\* C16: the size limit is inclusive: with forwarding enabled and a supported
\* extension, a payload of exactly max_attachment_size_mb * 1024 * 1024 bytes
\* is not skipped for size and one of one byte more is skipped with a size
\* reason, also when the limit is 0.
C16_SizeLimitInclusive ==
    \A k \in ProcessCalls : \A j \in 1..Len(calls[k].parts) :
        LET policy == calls[k].policy
            part == calls[k].parts[j]
            rec == attachments[j]
        IN  (policy.include_pdf_docx /\ SupportedName(PartName(part)))
            => /\ part.payload.size = ByteLimit(policy)
                    => (rec.skipped => "size-exceeded" \notin ReasonKinds(rec.reason[1]))
               /\ part.payload.size = ByteLimit(policy) + 1
                    => SkippedFor(rec, "size-exceeded")

\* a docx of exactly one megabyte was read under a limit of one megabyte
C16_Witness ==
    \E k \in ProcessCalls : \E j \in 1..Len(calls[k].parts) :
        /\ calls[k].policy.include_pdf_docx
        /\ calls[k].policy.max_attachment_size_mb > 0
        /\ calls[k].parts[j].payload.size = ByteLimit(calls[k].policy)
        /\ ~attachments[j].skipped

\* C17: every ProcessedAttachment process returns has skipped true if and only
\* if its text is absent; when skipped, exactly one of the five reasons is
\* set; when not skipped, the reason is absent and the text is not empty.
C17_SkippedIffNoText ==
    \A k \in ProcessCalls : \A j \in 1..Len(attachments) :
        LET rec == attachments[j]
        IN  /\ rec.skipped <=> rec.text = <<>>
            /\ rec.skipped
                  => rec.reason # <<>> /\ Cardinality(ReasonKinds(rec.reason[1])) = 1
            /\ ~rec.skipped => rec.reason = <<>> /\ rec.text[1] # ""

\* a docx without any text was skipped for having no textual content
C17_Witness ==
    \E k \in ProcessCalls : \E j \in 1..Len(calls[k].parts) :
        /\ calls[k].parts[j].payload.format = "docx"
        /\ calls[k].parts[j].payload.units = <<>>
        /\ SkippedFor(attachments[j], "no-text-extracted")

\* the part with a payload its extractor can read
Readable(part) ==
    [part EXCEPT !.payload =
        [size |-> part.payload.size,
         format |-> IF EndsWith(Lower(PartName(part)), ".pdf") THEN "pdf" ELSE "docx",
         units |-> <<"text">>]]

\* C18: a failure to extract one attachment never aborts the processing of
\* the message or of its other attachments: for a message with n attachment
\* parts the orchestrator passes to generate_reply exactly n records, in part
\* order, the skipped ones included; a part whose extraction raised is a
\* skipped record with an 'extraction failed' reason, and the records of the
\* other parts are what they are when that part can be read.
C18_ExtractionFailureIsolated ==
    \A i \in EnvIdx : \A k \in CallsOf(i, "generate_reply") :
        LET parts == PartsOn(envelopes[i].message)
            passed == calls[k].attachments
            failing == {f \in 1..Len(parts) :
                          FirstRule(DefaultPolicy, TRUE, parts[f]) = "extraction-failed"}
        IN  /\ Len(passed) = Len(parts)
            /\ \A j \in 1..Len(parts) : passed[j].filename = PartName(parts[j])
            /\ \A f \in failing :
                  /\ SkippedFor(passed[f], "extraction-failed")
                  /\ \A j \in 1..Len(parts) \ {f} :
                        passed[j] = process(DefaultPolicy, TRUE,
                                            [parts EXCEPT ![f] = Readable(parts[f])])[j]

\* generate_reply was given the three records of a message whose second
\* attachment could not be read and whose third could
C18_Witness ==
    \E i \in EnvIdx : \E k \in CallsOf(i, "generate_reply") :
        /\ Len(calls[k].attachments) = 3
        /\ SkippedFor(calls[k].attachments[2], "extraction-failed")
        /\ ~calls[k].attachments[3].skipped

\* C19: the address passed to send_mail is, in safe mode, the address parsed
\* from the From header of the original message, or the first trusted-sender
\* address when no address can be parsed, and never the generated recipient;
\* without safe mode it is exactly the generated recipient reply.to.
C19_RecipientBySafeMode ==
    \A k \in 1..Len(calls) : calls[k].op = "send_mail" =>
        LET c == calls[k]
            parsed == ParseAddr(c.from_header)
        IN  /\ ~c.safe_mode => c.to = c.reply.to
            /\ c.safe_mode =>
                  /\ parsed # "" => c.to = parsed
                  /\ parsed = "" => c.to = c.trusted_senders[1]
                  /\ c.reply.to \notin {parsed, c.trusted_senders[1]} => c.to # c.reply.to

\* in safe mode a reply generated for another address went to the first
\* trusted sender, the From header holding a comment but no address
C19_Witness ==
    \E k \in 1..Len(calls) :
        /\ calls[k].op = "send_mail"
        /\ calls[k].safe_mode
        /\ calls[k].from_header = "(Andreas.Maier@FAU.de)"
        /\ calls[k].reply.to = "eve@evil.org"
        /\ calls[k].to = calls[k].trusted_senders[1]

\* the lower-cased From header of message m contains a lower-cased
\* trusted-sender token
HasTrustedToken(m) ==
    \E i \in 1..Len(ConfiguredSenders) :
        Contains(Lower(FromOf(m)), Lower(ConfiguredSenders[i]))

\* C20: fetch_messages returns a message (of those whose FETCH is answered)
\* if and only if its lower-cased From header contains a lower-cased
\* trusted-sender token, in mailbox order; consequently no message lacking
\* such a token is ever passed to generate_reply, replied to, deleted, marked
\* failed or written to a ledger.
C20_OnlyTrustedMessagesTouched ==
    LET holders == {m \in MsgIds : HasTrustedToken(m)}
    IN  /\ (pc # "start" /\ exc \notin FetchErrors)
           => /\ \A j \in 1..Len(fetchLog) : fetchLog[j] = "OK" =>
                    ((\E i \in EnvIdx : envelopes[i].uid = UidOf(j)
                                          /\ envelopes[i].message = j)
                        <=> j \in holders)
              /\ \A i, l \in EnvIdx :
                    i < l => envelopes[i].message < envelopes[l].message
        /\ \A k \in 1..Len(calls) :
              /\ calls[k].env \in EnvIdx
              /\ envelopes[calls[k].env].message \in holders
        /\ \A r \in removedBy : r[2] \in holders

\* the side-effecting calls made for envelope i, in the order they were made
\* (reading the body of the message has no effect outside the process)
EffectsOf(i) ==
    LET made == SelectSeq(calls, LAMBDA c : c.env = i /\ c.op # "extract_plain_text")
    IN  [k \in 1..Len(made) |-> made[k].op]

SuccessPath ==
    <<"process", "generate_reply", "send_mail", "delete_message", "record_deleted">>
FailurePath == <<"record_failed", "mark_failed">>

\* a call of operation `later` is made for envelope i only after a call of
\* operation `earlier` returned for it
OnlyAfterReturned(i, later, earlier) ==
    \A k \in CallsOf(i, later) : \E j \in CallsOf(i, earlier) : j < k /\ calls[j].ok

\* C21: within one run the side-effecting calls made for one envelope are a
\* prefix of [attachment processing, generate_reply, send_mail,
\* delete_message, record_deleted], optionally followed by record_failed and
\* then mark_failed: generate_reply, send_mail and delete_message are invoked
\* at most once per envelope (no retry), send_mail only after generate_reply
\* returned, delete_message only after send_mail returned, record_deleted only
\* after delete_message returned, mark_failed only after record_failed
\* returned.
C21_CallsFollowFixedOrder ==
    \A i \in EnvIdx :
        /\ \E h \in 0..Len(SuccessPath), f \in 0..Len(FailurePath) :
              EffectsOf(i) = SubSeq(SuccessPath, 1, h) \o SubSeq(FailurePath, 1, f)
        /\ \A op \in {"generate_reply", "send_mail", "delete_message"} : Count(i, op) <= 1
        /\ OnlyAfterReturned(i, "send_mail", "generate_reply")
        /\ OnlyAfterReturned(i, "delete_message", "send_mail")
        /\ OnlyAfterReturned(i, "record_deleted", "delete_message")
        /\ OnlyAfterReturned(i, "mark_failed", "record_failed")

\* an envelope went through all five calls of the success path, the last of
\* which raised, and was then recorded and marked as failed
C21_Witness ==
    \E i \in EnvIdx : EffectsOf(i) = SuccessPath \o FailurePath

====
